---- MODULE Spec2Model ----
(***************************************************************************)
(* Resource allocation graph store and deadlock detection engine of        *)
(* deadlockdetect.py (class ResourceAllocationGraph).                      *)
(***************************************************************************)
EXTENDS Integers, Sequences, FiniteSets, TLC

(* ------------------------------ bounds -------------------------------- *)
\* largest `instances` argument of add_resource
MaxInstances == 1
\* largest `count` argument of the edge operations
MaxCount == 2
\* cap on an available count, on the units allocated in the whole store and on
\* the units requested in the whole store (keeps the state space finite)
MaxHeld == 2

(* --------------------------- program state ---------------------------- *)
VARIABLES
    processes,          \* self.processes : set of process ids
    resources,          \* self.resources : id -> {'total', 'available'}
    allocations,        \* self.allocations : defaultdict(int) keyed by (p, r)
    requests,           \* self.requests : defaultdict(int) keyed by (p, r)
    next_process_id,    \* self.next_process_id
    next_resource_id,   \* self.next_resource_id
    ret,                \* what the last call returned or raised
    scan,               \* the local state of a running detect_deadlock call
    undo_stack,         \* RAGSimulator.undo_stack
    redo_stack,         \* RAGSimulator.redo_stack
    node_positions      \* the keys of RAGSimulator.node_positions

store == <<processes, resources, allocations, requests>>
\* the state of the simulator window around the store
ui == <<undo_stack, redo_stack, node_positions>>
vars == <<processes, resources, allocations, requests,
          next_process_id, next_resource_id, ret, scan,
          undo_stack, redo_stack, node_positions>>

(* ------------------------------ helpers ------------------------------- *)
\* f"P{n}" and f"R{n}"
PName(n) == "P" \o ToString(n)
RName(n) == "R" \o ToString(n)

\* the ids the callers of the store operations use
ProcIds == {PName(1), PName(2)}
ResIds == {RName(1), RName(2)}
\* the processes of the stores detection is run on
ScanProcIds == ProcIds \cup {PName(3)}
\* every id of the model
Ids == ProcIds \cup ResIds
\* process_id=None / resource_id=None (any falsy id takes the auto name)
NoId == ""
Counts == 1..MaxCount
Instances == 1..MaxInstances

\* an empty dict
EmptyDict == [k \in {} |-> 0]
\* d[k] of a defaultdict(int), read without inserting
Get(d, k) == IF k \in DOMAIN d THEN d[k] ELSE 0
\* d[k] = v
Put(d, k, v) == [x \in DOMAIN d \cup {k} |-> IF x = k THEN v ELSE d[x]]
\* del d[k]
Del(d, k) == [x \in DOMAIN d \ {k} |-> d[x]]

\* return value / exception of a call
Returned(op, v) == [op |-> op, status |-> "returned", value |-> v]
Raised(op, kind, msg) == [op |-> op, status |-> "raised", value |-> <<kind, msg>>]
\* the call has not returned yet
Running(op) == [op |-> op, status |-> "running", value |-> "None"]
Idle == [pc |-> "idle"]

\* sum of a set of keys of an integer dict
RECURSIVE SumOver(_, _)
SumOver(d, keys) ==
    IF keys = {} THEN 0
    ELSE LET k == CHOOSE x \in keys : TRUE
         IN d[k] + SumOver(d, keys \ {k})

(* ---------------------------- construction ---------------------------- *)
Init ==
    /\ processes = {}
    /\ resources = EmptyDict
    /\ allocations = EmptyDict
    /\ requests = EmptyDict
    /\ next_process_id = 1
    /\ next_resource_id = 1
    /\ ret = Returned("__init__", "None")
    /\ scan = Idle
    /\ undo_stack = <<>>
    /\ redo_stack = <<>>
    /\ node_positions = {}

(* ------------------------------ store --------------------------------- *)
\* the while loop of get_auto_process_name / get_auto_resource_name:
\* the first n >= start whose name is free
RECURSIVE AutoIndex(_, _, _)
AutoIndex(prefix, n, used) ==
    IF (prefix \o ToString(n)) \in used THEN AutoIndex(prefix, n + 1, used) ELSE n

get_auto_process_name == AutoIndex("P", next_process_id, processes)
get_auto_resource_name == AutoIndex("R", next_resource_id, DOMAIN resources)

add_process(process_id) ==
    LET auto == (process_id = NoId)
        n == get_auto_process_name
        id == IF auto THEN PName(n) ELSE process_id
    IN /\ scan.pc = "idle"
       /\ id \in Ids
       /\ next_process_id' = IF auto THEN n ELSE next_process_id
       /\ IF id \in processes
          THEN /\ ret' = Raised("add_process", "ValueError", "Process already exists")
               /\ UNCHANGED processes
          ELSE /\ processes' = processes \cup {id}
               /\ ret' = Returned("add_process", id)
       /\ UNCHANGED <<resources, allocations, requests, next_resource_id, scan>>

add_resource_overwrites(resource_id, instances) ==
    LET auto == (resource_id = NoId)
        n == get_auto_resource_name
        id == IF auto THEN RName(n) ELSE resource_id
    IN /\ scan.pc = "idle"
       /\ id \in Ids
       /\ next_resource_id' = IF auto THEN n ELSE next_resource_id
       /\ resources' = Put(resources, id,
                           [total |-> instances, available |-> instances])
       /\ ret' = Returned("add_resource", id)
       /\ UNCHANGED <<processes, allocations, requests, next_process_id, scan>>
add_resource(resource_id, instances) ==
    LET auto == (resource_id = NoId)
        n == get_auto_resource_name
        id == IF auto THEN RName(n) ELSE resource_id
    IN /\ scan.pc = "idle"
       /\ id \in Ids
       /\ next_resource_id' = IF auto THEN n ELSE next_resource_id
       /\ IF id \in DOMAIN resources
          THEN /\ ret' = Raised("add_resource", "ValueError", "Resource already exists")
               /\ UNCHANGED resources
          ELSE /\ resources' = Put(resources, id,
                                   [total |-> instances, available |-> instances])
               /\ ret' = Returned("add_resource", id)
       /\ UNCHANGED <<processes, allocations, requests, next_process_id, scan>>

add_request_unchecked(process, resource, count) ==
    /\ scan.pc = "idle"
    /\ SumOver(requests, DOMAIN requests) + count <= MaxHeld
    /\ requests' = Put(requests, <<process, resource>>,
                       Get(requests, <<process, resource>>) + count)
    /\ ret' = Returned("add_request", "None")
    /\ UNCHANGED <<processes, resources, allocations,
                   next_process_id, next_resource_id, scan>>
add_request(process, resource, count) ==
    /\ scan.pc = "idle"
    /\ IF process \notin processes \/ resource \notin DOMAIN resources
       THEN /\ ret' = Raised("add_request", "ValueError", "Invalid process or resource")
            /\ UNCHANGED requests
       ELSE /\ SumOver(requests, DOMAIN requests) + count <= MaxHeld
            /\ requests' = Put(requests, <<process, resource>>,
                               Get(requests, <<process, resource>>) + count)
            /\ ret' = Returned("add_request", "None")
    /\ UNCHANGED <<processes, resources, allocations,
                   next_process_id, next_resource_id, scan>>

add_allocation_unchecked(process, resource, count) ==
    /\ scan.pc = "idle"
    /\ IF process \notin processes \/ resource \notin DOMAIN resources
       THEN /\ ret' = Raised("add_allocation", "ValueError", "Invalid process or resource")
            /\ UNCHANGED <<allocations, resources>>
       ELSE /\ SumOver(allocations, DOMAIN allocations) + count <= MaxHeld
            /\ allocations' = Put(allocations, <<process, resource>>,
                                  Get(allocations, <<process, resource>>) + count)
            /\ resources' = [resources EXCEPT
                                ![resource].available = @ - count]
            /\ ret' = Returned("add_allocation", "None")
    /\ UNCHANGED <<processes, requests, next_process_id, next_resource_id, scan>>
add_allocation(process, resource, count) ==
    /\ scan.pc = "idle"
    /\ IF process \notin processes \/ resource \notin DOMAIN resources
       THEN /\ ret' = Raised("add_allocation", "ValueError", "Invalid process or resource")
            /\ UNCHANGED <<allocations, resources>>
       ELSE IF count > resources[resource].available
       THEN /\ ret' = Raised("add_allocation", "ValueError", "Not enough instances available")
            /\ UNCHANGED <<allocations, resources>>
       ELSE /\ SumOver(allocations, DOMAIN allocations) + count <= MaxHeld
            /\ allocations' = Put(allocations, <<process, resource>>,
                                  Get(allocations, <<process, resource>>) + count)
            /\ resources' = [resources EXCEPT
                                ![resource].available = @ - count]
            /\ ret' = Returned("add_allocation", "None")
    /\ UNCHANGED <<processes, requests, next_process_id, next_resource_id, scan>>

remove_allocation_keeps_available(process, resource, count) ==
    /\ scan.pc = "idle"
    /\ IF <<process, resource>> \in DOMAIN allocations
       THEN /\ allocations' =
                 IF allocations[<<process, resource>>] - count <= 0
                 THEN Del(allocations, <<process, resource>>)
                 ELSE Put(allocations, <<process, resource>>,
                          allocations[<<process, resource>>] - count)
            /\ UNCHANGED resources
       ELSE UNCHANGED <<allocations, resources>>
    /\ ret' = Returned("remove_allocation", "None")
    /\ UNCHANGED <<processes, requests, next_process_id, next_resource_id, scan>>
remove_allocation_always_credits(process, resource, count) ==
    /\ scan.pc = "idle"
    /\ resource \in DOMAIN resources
    /\ resources[resource].available + count <= MaxHeld
    /\ resources' = [resources EXCEPT ![resource].available = @ + count]
    /\ allocations' =
         IF Get(allocations, <<process, resource>>) - count <= 0
         THEN Del(allocations, <<process, resource>>)
         ELSE Put(allocations, <<process, resource>>,
                  allocations[<<process, resource>>] - count)
    /\ ret' = Returned("remove_allocation", "None")
    /\ UNCHANGED <<processes, requests, next_process_id, next_resource_id, scan>>
remove_allocation(process, resource, count) ==
    /\ scan.pc = "idle"
    /\ IF <<process, resource>> \in DOMAIN allocations
       THEN /\ resources[resource].available + count <= MaxHeld
            /\ resources' = [resources EXCEPT
                                ![resource].available = @ + count]
            /\ allocations' =
                 IF allocations[<<process, resource>>] - count <= 0
                 THEN Del(allocations, <<process, resource>>)
                 ELSE Put(allocations, <<process, resource>>,
                          allocations[<<process, resource>>] - count)
       ELSE UNCHANGED <<allocations, resources>>
    /\ ret' = Returned("remove_allocation", "None")
    /\ UNCHANGED <<processes, requests, next_process_id, next_resource_id, scan>>

\* the operations called on a ResourceAllocationGraph of its own: no window
StoreNext ==
    \/ \E id \in ProcIds \cup {NoId} : add_process(id) /\ UNCHANGED ui
    \/ \E id \in ResIds \cup {NoId}, n \in Instances :
          add_resource(id, n) /\ UNCHANGED ui
    \/ \E p \in ProcIds, r \in ResIds, c \in Counts :
          add_request(p, r, c) /\ UNCHANGED ui
    \/ \E p \in ProcIds, r \in ResIds, c \in Counts :
          add_allocation(p, r, c) /\ UNCHANGED ui
    \/ \E p \in ProcIds, r \in ResIds, c \in Counts :
          remove_allocation(p, r, c) /\ UNCHANGED ui

Next == StoreNext

\* a caller that keeps no discipline: the same ids given as process and as
\* resource, and zero or negative counts given to add_request
SharedIds == {PName(1), RName(1)}
SignedCounts == {0 - c : c \in Counts} \cup {0} \cup Counts
\* the units a dict holds, a negative count taken by its size
Units(d) ==
    SumOver([k \in DOMAIN d |-> IF d[k] < 0 THEN 0 - d[k] ELSE d[k]], DOMAIN d)

CallerNext ==
    \/ \E id \in SharedIds : add_process(id) /\ UNCHANGED ui
    \/ \E id \in SharedIds, n \in Instances : add_resource(id, n) /\ UNCHANGED ui
    \/ \E p \in SharedIds, r \in SharedIds, c \in SignedCounts :
          /\ Units(Put(requests, <<p, r>>, Get(requests, <<p, r>>) + c)) <= MaxHeld
          /\ add_request(p, r, c)
          /\ UNCHANGED ui
    \/ \E p \in SharedIds, r \in SharedIds, c \in Counts :
          add_allocation(p, r, c) /\ UNCHANGED ui
    \/ \E p \in SharedIds, r \in SharedIds, c \in Counts :
          remove_allocation(p, r, c) /\ UNCHANGED ui

SpecCaller == Init /\ [][CallerNext]_vars

Spec == Init /\ [][Next]_vars

(* ---------------------------- detection ------------------------------ *)
Range(seq) == {seq[i] : i \in 1..Len(seq)}
\* the orders in which `for p in self.processes` can visit a set
Orders(S) ==
    {o \in [1..Cardinality(S) -> S] : \A i, j \in 1..Cardinality(S) : o[i] = o[j] => i = j}

\* work = {r: info['available'] ...}
InitialWork == [r \in DOMAIN resources |-> resources[r].available]
\* finish = {p: False for p in self.processes}
InitialFinish == [p \in processes |-> FALSE]

\* all(request[p][r] <= work[r] for r in self.resources)
CanFinishReversed(p, work) ==
    \A r \in DOMAIN resources : Get(requests, <<p, r>>) >= work[r]
CanFinish(p, work) ==
    \A r \in DOMAIN resources : Get(requests, <<p, r>>) <= work[r]

\* for r in self.resources: work[r] += allocation[p][r]
ReleaseAssign(p, work) ==
    [r \in DOMAIN work |-> Get(allocations, <<p, r>>)]
Release(p, work) ==
    [r \in DOMAIN work |-> work[r] + Get(allocations, <<p, r>>)]

\* the orders in which `for r in self.resources` visits the dict: its
\* insertion order, which the store's history fixes and the model leaves open
ResourceOrders == Orders(DOMAIN resources)

\* the keys request[p][r] of line 77 touches: all() stops at the first r
\* whose test fails, and every r read that far becomes a key of request[p]
ReadKeys(p, work, rorder) ==
    LET fails == {i \in 1..Len(rorder) :
                    Get(requests, <<p, rorder[i]>>) > work[rorder[i]]}
        last == IF fails = {} THEN Len(rorder)
                ELSE CHOOSE i \in fails : \A j \in fails : i <= j
    IN {rorder[i] : i \in 1..last}

\* the body of `for p in self.processes` for one process; st.read[p] holds
\* the keys the reads of line 77 have added to request[p]
ScanStepNoFinish(p, st) ==
    IF st.finish[p] THEN st
    ELSE LET read == [st.read EXCEPT ![p] = @ \cup ReadKeys(p, st.work, st.rorder)]
         IN IF CanFinish(p, st.work)
            THEN [st EXCEPT !.work = Release(p, st.work),
                            !.found = TRUE,
                            !.read = read]
            ELSE [st EXCEPT !.read = read]
ScanStep(p, st) ==
    IF st.finish[p] THEN st
    ELSE LET read == [st.read EXCEPT ![p] = @ \cup ReadKeys(p, st.work, st.rorder)]
         IN IF CanFinish(p, st.work)
            THEN [st EXCEPT !.work = Release(p, st.work),
                            !.finish = [st.finish EXCEPT ![p] = TRUE],
                            !.found = TRUE,
                            !.read = read]
            ELSE [st EXCEPT !.read = read]

\* one execution of the for loop over the processes, in the given order
RECURSIVE ScanPass(_, _)
ScanPass(order, st) ==
    IF order = <<>> THEN st
    ELSE ScanPass(Tail(order), ScanStep(Head(order), st))

\* `if not found: break`
LoopBreaksAlways(st) == FALSE
LoopAgain(st) == st.found

\* the while loop: passes until one makes no progress
RECURSIVE ScanLoop(_, _)
ScanLoop(order, st) ==
    LET next == ScanPass(order, [st EXCEPT !.found = FALSE])
    IN IF LoopAgain(next) THEN ScanLoop(order, next) ELSE next

\* the locals of detect_deadlock when the while loop is entered
InitialRead == [p \in processes |-> {}]
ScanStart(rorder, work) ==
    [work |-> work, finish |-> InitialFinish, found |-> FALSE,
     rorder |-> rorder, read |-> InitialRead]

\* the keys of request[p] that come from self.requests
RequestKeys(p) == {k[2] : k \in {k \in DOMAIN requests : k[1] = p}}

\* involved_resources[p] : the r of request[p] with request[p][r] > work[r];
\* the keys of request[p] are those of self.requests and those the scan read
InvolvedInitialWork(p, work, read) ==
    {r \in RequestKeys(p) \cup read : Get(requests, <<p, r>>) > InitialWork[r]}
Involved(p, work, read) ==
    {r \in RequestKeys(p) \cup read : Get(requests, <<p, r>>) > work[r]}

\* lines 85-91: the returned triple
Report(order, st) ==
    LET Unfinished(p) == ~st.finish[p]
        deadlocked == SelectSeq(order, Unfinished)
    IN [has_deadlock |-> Len(deadlocked) > 0,
        deadlocked |-> deadlocked,
        involved_resources |->
            [p \in {q \in Range(deadlocked) : Involved(q, st.work, st.read[q]) # {}}
                |-> Involved(p, st.work, st.read[p])]]

\* detect_deadlock as a function of the two iteration orders and the
\* initial work
RunDetect(order, rorder, work) ==
    Report(order, ScanLoop(order, ScanStart(rorder, work)))
detect_deadlock(order, rorder) == RunDetect(order, rorder, InitialWork)

\* detect_deadlock step by step: entry (lines 64-72)
\* `for (p, r), cnt in ...items()` (lines 67-70) unpacks every key: a key
\* that is the one string of a JSON document does not unpack into two
\* (a string of exactly two characters would, into its characters: no
\* document of the model has one)
Unpacks(d) == \A k \in DOMAIN d : Len(k) = 2
detect_begin(order, rorder) ==
    /\ scan.pc = "idle"
    /\ IF Unpacks(allocations) /\ Unpacks(requests)
       THEN /\ scan' = [pc |-> "scan", order |-> order, passes |-> 0,
                        st |-> ScanStart(rorder, InitialWork)]
            /\ ret' = Running("detect_deadlock")
       ELSE /\ scan' = scan
            /\ ret' = Raised("detect_deadlock", "ValueError",
                             "too many values to unpack (expected 2)")
    /\ UNCHANGED <<processes, resources, allocations, requests,
                   next_process_id, next_resource_id>>

\* one iteration of `while True` (lines 74-83)
detect_pass ==
    /\ scan.pc = "scan"
    /\ LET st == ScanPass(scan.order, [scan.st EXCEPT !.found = FALSE])
       IN scan' = [scan EXCEPT !.pc = IF LoopAgain(st) THEN "scan" ELSE "report",
                               !.st = st,
                               !.passes = @ + 1]
    /\ UNCHANGED <<processes, resources, allocations, requests,
                   next_process_id, next_resource_id, ret>>

\* lines 85-91
detect_return ==
    /\ scan.pc = "report"
    /\ ret' = Returned("detect_deadlock", Report(scan.order, scan.st))
    /\ scan' = Idle
    /\ UNCHANGED <<processes, resources, allocations, requests,
                   next_process_id, next_resource_id>>

\* involved_resources[p] of the defaultdict(set) detect_deadlock returns
InvolvedGet(involved_resources, p) ==
    IF p \in DOMAIN involved_resources THEN involved_resources[p] ELSE {}

\* the text for an empty deadlocked list
SafeGuide == [message |-> "No deadlock detected. The system is in a safe state."]

\* "- p: Requests: ..., Allocations: ..." (lines 100-103): the resources with
\* their counts, as sets (the text lists them in iteration order)
GuideDetail(p, involved_resources) ==
    [requests |-> {<<r, Get(requests, <<p, r>>)>> :
                      r \in InvolvedGet(involved_resources, p)},
     allocations |-> {<<r, allocations[<<p, r>>]>> :
                         r \in {x \in DOMAIN resources : <<p, x>> \in DOMAIN allocations}}]

\* "Suggestion: Release allocations from {deadlocked[0]}"
ReleaseTargetLast(deadlocked) == deadlocked[Len(deadlocked)]
ReleaseTarget(deadlocked) == deadlocked[1]

\* "Release {count} instance(s) of {r} from {deadlocked[0]} manually" (lines
\* 109-112), one line for each r of involved_resources[deadlocked[0]] held
ReleaseLinesAllHeld(d, involved_resources) ==
    {<<r, allocations[<<d, r>>]>> :
        r \in {x \in DOMAIN resources : <<d, x>> \in DOMAIN allocations}}
ReleaseLines(d, involved_resources) ==
    {<<r, allocations[<<d, r>>]>> :
        r \in {x \in InvolvedGet(involved_resources, d) : <<d, x>> \in DOMAIN allocations}}

\* the text get_deadlock_resolution_guide returns, by its content
Guide(deadlocked, involved_resources) ==
    IF deadlocked = <<>>
    THEN SafeGuide
    ELSE [message |-> "Deadlock Resolution Guide:",
          deadlocked |-> deadlocked,
          details |-> [p \in Range(deadlocked) |-> GuideDetail(p, involved_resources)],
          target |-> ReleaseTarget(deadlocked),
          releases |-> ReleaseLines(ReleaseTarget(deadlocked), involved_resources)]

\* self.requests[(p, r)] of line 101 is a defaultdict read: a missing key is
\* inserted with 0
GuideReads(deadlocked, involved_resources) ==
    UNION {{<<p, r>> : r \in InvolvedGet(involved_resources, p)} :
              p \in Range(deadlocked)}

\* get_deadlock_resolution_guide on the result detect_deadlock has just
\* returned (show_resolution_guide, lines 455-457)
get_deadlock_resolution_guide ==
    /\ scan.pc = "idle"
    /\ ret.op = "detect_deadlock"
    /\ ret.status = "returned"
    /\ ret' = Returned("get_deadlock_resolution_guide",
                       Guide(ret.value.deadlocked, ret.value.involved_resources))
    /\ requests' =
         [k \in DOMAIN requests
                \cup GuideReads(ret.value.deadlocked, ret.value.involved_resources)
            |-> Get(requests, k)]
    /\ UNCHANGED <<processes, resources, allocations,
                   next_process_id, next_resource_id, scan>>

DetectNext ==
    \/ \E order \in Orders(processes), rorder \in ResourceOrders :
          detect_begin(order, rorder) /\ UNCHANGED ui
    \/ detect_pass /\ UNCHANGED ui
    \/ detect_return /\ UNCHANGED ui
    \/ get_deadlock_resolution_guide /\ UNCHANGED ui

\* the stores detection is run on: every store within the bounds that the
\* store operations build from valid calls (capacity respected)
EdgeDicts(keys, maxval, maxsum) ==
    {d \in UNION {[K -> 1..maxval] : K \in SUBSET keys} :
        SumOver(d, DOMAIN d) <= maxsum}
AllocatedOf(alloc, r) ==
    SumOver(alloc, {k \in DOMAIN alloc : k[2] = r})

InitDetect ==
    \E procs \in SUBSET ScanProcIds, res \in SUBSET ResIds :
      \E tot \in [res -> Instances] :
        \E alloc \in EdgeDicts(procs \X res, MaxInstances, MaxInstances * Cardinality(res)),
           req \in EdgeDicts(procs \X res, MaxHeld, MaxHeld) :
            /\ \A r \in res : AllocatedOf(alloc, r) <= tot[r]
            /\ processes = procs
            /\ resources = [r \in res |->
                              [total |-> tot[r],
                               available |-> tot[r] - AllocatedOf(alloc, r)]]
            /\ allocations = alloc
            /\ requests = req
            /\ next_process_id = 1
            /\ next_resource_id = 1
            /\ ret = Returned("__init__", "None")
            /\ scan = Idle
            /\ undo_stack = <<>>
            /\ redo_stack = <<>>
            /\ node_positions = {}

SpecDetect == InitDetect /\ [][DetectNext]_vars

\* releases followed by detection, starting from the stores of two processes
\* and two resources in which every instance is held
InitRelease ==
    /\ InitDetect
    /\ processes = ProcIds
    /\ DOMAIN resources = ResIds
    /\ \A r \in ResIds : resources[r].available = 0

ReleaseNext ==
    \/ \E p \in ProcIds, r \in ResIds, c \in Counts :
          remove_allocation(p, r, c) /\ UNCHANGED ui
    \/ DetectNext

SpecRelease == InitRelease /\ [][ReleaseNext]_vars

(* --------------------------- export / import -------------------------- *)
\* json.dumps takes str keys only: a key that is a (process, resource) tuple
\* raises TypeError; a key read back from JSON is one string
TupleKeys(d) == {k \in DOMAIN d : Len(k) = 2}

\* the JSON document export_state writes; `order` is list(self.processes)
Document(order) ==
    [processes |-> order, resources |-> resources,
     allocations |-> allocations, requests |-> requests]

export_state(order) ==
    /\ scan.pc = "idle"
    /\ ret' = IF TupleKeys(allocations) \cup TupleKeys(requests) # {}
              THEN Raised("export_state", "TypeError",
                          "keys must be str, int, float, bool or None, not tuple")
              ELSE Returned("export_state", Document(order))
    /\ UNCHANGED <<processes, resources, allocations, requests,
                   next_process_id, next_resource_id, scan>>

\* the fields of the document in the order import_state reads them
Fields == <<"processes", "resources", "allocations", "requests">>
\* the number of assignments import_state makes before state[...] raises KeyError
FieldsRead(state) ==
    IF \A i \in 1..Len(Fields) : Fields[i] \in DOMAIN state
    THEN Len(Fields)
    ELSE (CHOOSE i \in 1..Len(Fields) :
            /\ Fields[i] \notin DOMAIN state
            /\ \A j \in 1..(i - 1) : Fields[j] \in DOMAIN state) - 1

\* the store import_state leaves: each field is assigned as it is read
Imported(state) ==
    <<IF FieldsRead(state) >= 1 THEN Range(state.processes) ELSE processes,
      IF FieldsRead(state) >= 2 THEN state.resources ELSE resources,
      IF FieldsRead(state) >= 3 THEN state.allocations ELSE allocations,
      IF FieldsRead(state) >= 4 THEN state.requests ELSE requests>>

import_state(state) ==
    /\ scan.pc = "idle"
    /\ processes' = Imported(state)[1]
    /\ resources' = Imported(state)[2]
    /\ allocations' = Imported(state)[3]
    /\ requests' = Imported(state)[4]
    /\ ret' = IF FieldsRead(state) = Len(Fields)
              THEN Returned("import_state", "None")
              ELSE Raised("import_state", "KeyError", Fields[FieldsRead(state) + 1])
    /\ UNCHANGED <<next_process_id, next_resource_id, scan>>

\* import_state(export_state()): the document the last call returned
import_exported ==
    /\ ret.op = "export_state"
    /\ ret.status = "returned"
    /\ import_state(ret.value)

\* a JSON object key that names the pair (p, r)
JsonKey(p, r) == <<p \o "," \o r>>

\* hand-written documents given to import_state
SnapshotHolding ==
    [processes |-> <<"P1">>,
     resources |-> ("R1" :> [total |-> 1, available |-> 0]),
     allocations |-> (JsonKey("P1", "R1") :> 1),
     requests |-> EmptyDict]
SnapshotNegativeCount ==
    [processes |-> <<"P1">>,
     resources |-> ("R1" :> [total |-> 1, available |-> 1]),
     allocations |-> EmptyDict,
     requests |-> (JsonKey("P1", "R1") :> (0 - 1))]
SnapshotUnknownProcess ==
    [processes |-> <<"P1">>,
     resources |-> ("R1" :> [total |-> 1, available |-> 1]),
     allocations |-> EmptyDict,
     requests |-> (JsonKey("P2", "R1") :> 1)]
SnapshotOverAllocated ==
    [processes |-> <<"P1">>,
     resources |-> ("R1" :> [total |-> 1, available |-> 1]),
     allocations |-> (JsonKey("P1", "R1") :> 2),
     requests |-> EmptyDict]
SnapshotNoRequests ==
    [processes |-> <<"P2">>,
     resources |-> ("R2" :> [total |-> 1, available |-> 1]),
     allocations |-> EmptyDict]
SnapshotNegativeAvailable ==
    [processes |-> <<"P1">>,
     resources |-> ("R1" :> [total |-> 1, available |-> 0 - 1]),
     allocations |-> EmptyDict,
     requests |-> EmptyDict]
Snapshots ==
    {SnapshotHolding, SnapshotNegativeCount, SnapshotUnknownProcess,
     SnapshotOverAllocated, SnapshotNoRequests, SnapshotNegativeAvailable}

RoundTripNext ==
    \/ StoreNext
    \/ \E order \in Orders(processes) : export_state(order) /\ UNCHANGED ui
    \/ import_exported /\ UNCHANGED ui

ImportNext ==
    \/ RoundTripNext
    \/ \E state \in Snapshots : import_state(state) /\ UNCHANGED ui

SpecRoundTrip == Init /\ [][RoundTripNext]_vars
SpecImport == Init /\ [][ImportNext]_vars

\* a store loaded from a document, then requests and detection with its guide
LoadNext ==
    \/ \E state \in Snapshots : import_state(state) /\ UNCHANGED ui
    \/ \E p \in ProcIds, r \in ResIds, c \in Counts :
          add_request(p, r, c) /\ UNCHANGED ui
    \/ DetectNext

SpecLoad == Init /\ [][LoadNext]_vars

(* ---------------------------- simulator ------------------------------ *)
\* RAGSimulator: the window's handlers around self.rag.  node_positions keeps
\* the ids that have a position (the coordinates play no part in the store);
\* the selection is an input of create_edge.
\* longest undo stack the handlers build
MaxUndo == 3

\* node2=None, state=None
None == "None"
NoState == <<>>

\* the record push_undo_action appends
UndoAction(action_type, node1, node2, count, state, positions) ==
    [type |-> action_type, node1 |-> node1, node2 |-> node2,
     count |-> count, state |-> state, positions |-> positions]

\* push_undo_action: append the record, clear the redo stack
push_undo_action(action_type, node1, node2, count, state, positions) ==
    /\ Len(undo_stack) < MaxUndo
    /\ undo_stack' = Append(undo_stack,
                            UndoAction(action_type, node1, node2, count, state, positions))
    /\ redo_stack' = <<>>

\* "New Process": self.rag.add_process() with the automatic name
sim_add_process ==
    /\ add_process(NoId)
    /\ IF ret'.status = "raised"
       THEN UNCHANGED ui
       ELSE /\ node_positions' = node_positions \cup {ret'.value}
            /\ push_undo_action("add_process", ret'.value, None, 0, NoState,
                                node_positions')

\* "New Resource": self.rag.add_resource(instances=self.instances_var.get())
sim_add_resource(instances) ==
    /\ add_resource(NoId, instances)
    /\ IF ret'.status = "raised"
       THEN UNCHANGED ui
       ELSE /\ node_positions' = node_positions \cup {ret'.value}
            /\ push_undo_action("add_resource", ret'.value, None, instances, NoState,
                                node_positions')

\* the nodes drawn on the canvas, which a click can select
Clickable == (processes \cup DOMAIN resources) \cap node_positions

\* create_edge with self.edge_mode = mode, self.selected_nodes = [n1, n2]
create_edge(mode, n1, n2, count) ==
    IF mode = "request" /\ n1 \in processes /\ n2 \in DOMAIN resources
    THEN /\ add_request(n1, n2, count)
         /\ IF ret'.status = "raised"
            THEN UNCHANGED ui
            ELSE /\ push_undo_action("request", n1, n2, count, NoState, node_positions)
                 /\ UNCHANGED node_positions
    ELSE IF mode = "allocation" /\ n1 \in DOMAIN resources /\ n2 \in processes
    THEN /\ add_allocation(n2, n1, count)
         /\ IF ret'.status = "raised"
            THEN UNCHANGED ui
            ELSE /\ push_undo_action("allocation", n2, n1, count, NoState, node_positions)
                 /\ UNCHANGED node_positions
    ELSE /\ scan.pc = "idle"
         /\ ret' = Raised("create_edge", "ValueError", "Invalid edge direction")
         /\ UNCHANGED <<processes, resources, allocations, requests,
                        next_process_id, next_resource_id, scan, ui>>

\* json.dumps of a store with a (process, resource) tuple key raises TypeError
ExportRaises == TupleKeys(allocations) \cup TupleKeys(requests) # {}
ExportTypeError ==
    Raised("export_state", "TypeError",
           "keys must be str, int, float, bool or None, not tuple")
\* json.loads(None)
LoadsTypeError(op) ==
    Raised(op, "TypeError",
           "the JSON object must be str, bytes or bytearray, not NoneType")

\* undo (Ctrl+Z): pop the last record and revert it; the record goes to the
\* redo stack only if no statement raised
undo ==
    /\ scan.pc = "idle"
    /\ IF undo_stack = <<>>
       THEN /\ ret' = Returned("undo", None)
            /\ UNCHANGED <<processes, resources, allocations, requests, ui>>
       ELSE
        LET action == undo_stack[Len(undo_stack)]
            key == <<action.node1, action.node2>>
        IN
        /\ undo_stack' = SubSeq(undo_stack, 1, Len(undo_stack) - 1)
        /\ IF action.type = "request"
           THEN /\ requests' = IF Get(requests, key) - action.count <= 0
                               THEN Del(requests, key)
                               ELSE Put(requests, key, Get(requests, key) - action.count)
                /\ ret' = Returned("undo", None)
                /\ redo_stack' = Append(redo_stack, action)
                /\ UNCHANGED <<processes, resources, allocations, node_positions>>
           ELSE IF action.type = "allocation"
           THEN /\ remove_allocation(action.node2, action.node1, action.count)
                /\ redo_stack' = Append(redo_stack, action)
                /\ UNCHANGED node_positions
           ELSE IF action.type = "add_process"
           THEN IF action.node1 \notin processes
                THEN /\ ret' = Raised("undo", "KeyError", action.node1)
                     /\ UNCHANGED <<processes, resources, allocations, requests,
                                    redo_stack, node_positions>>
                ELSE /\ processes' = processes \ {action.node1}
                     /\ UNCHANGED <<resources, allocations, requests>>
                     /\ IF action.node1 \notin node_positions
                        THEN /\ ret' = Raised("undo", "KeyError", action.node1)
                             /\ UNCHANGED <<redo_stack, node_positions>>
                        ELSE /\ node_positions' = node_positions \ {action.node1}
                             /\ redo_stack' = Append(redo_stack, action)
                             /\ ret' = Returned("undo", None)
           ELSE IF action.type = "add_resource"
           THEN IF action.node1 \notin DOMAIN resources
                THEN /\ ret' = Raised("undo", "KeyError", action.node1)
                     /\ UNCHANGED <<processes, resources, allocations, requests,
                                    redo_stack, node_positions>>
                ELSE /\ resources' = Del(resources, action.node1)
                     /\ UNCHANGED <<processes, allocations, requests>>
                     /\ IF action.node1 \notin node_positions
                        THEN /\ ret' = Raised("undo", "KeyError", action.node1)
                             /\ UNCHANGED <<redo_stack, node_positions>>
                        ELSE /\ node_positions' = node_positions \ {action.node1}
                             /\ redo_stack' = Append(redo_stack, action)
                             /\ ret' = Returned("undo", None)
           ELSE \* 'import': self.rag.import_state(action['state'])
                IF action.state = NoState
                THEN /\ ret' = LoadsTypeError("undo")
                     /\ UNCHANGED <<processes, resources, allocations, requests,
                                    redo_stack, node_positions>>
                ELSE /\ import_state(action.state[1])
                     /\ IF ret'.status = "raised"
                        THEN UNCHANGED <<redo_stack, node_positions>>
                        ELSE /\ node_positions' = action.positions
                             /\ redo_stack' = Append(redo_stack, action)
    /\ next_process_id' = next_process_id
    /\ next_resource_id' = next_resource_id
    /\ scan' = scan

\* redo (Ctrl+Y): pop the last undone record and apply it again; the record
\* goes back to the undo stack only if no statement raised
redo ==
    /\ scan.pc = "idle"
    /\ IF redo_stack = <<>>
       THEN /\ ret' = Returned("redo", None)
            /\ UNCHANGED <<processes, resources, allocations, requests, ui>>
       ELSE
        LET action == redo_stack[Len(redo_stack)]
            Again(a) == undo_stack' = IF ret'.status = "raised"
                                      THEN undo_stack
                                      ELSE Append(undo_stack, a)
        IN
        /\ redo_stack' = SubSeq(redo_stack, 1, Len(redo_stack) - 1)
        /\ IF action.type = "request"
           THEN /\ add_request(action.node1, action.node2, action.count)
                /\ Again(action)
                /\ UNCHANGED node_positions
           ELSE IF action.type = "allocation"
           THEN /\ add_allocation(action.node2, action.node1, action.count)
                /\ Again(action)
                /\ UNCHANGED node_positions
           ELSE IF action.type = "add_process"
           THEN /\ add_process(action.node1)
                /\ Again(action)
                /\ node_positions' = IF ret'.status = "raised"
                                     THEN node_positions
                                     ELSE node_positions \cup {action.node1}
           ELSE IF action.type = "add_resource"
           THEN /\ add_resource(action.node1, action.count)
                /\ Again(action)
                /\ node_positions' = IF ret'.status = "raised"
                                     THEN node_positions
                                     ELSE node_positions \cup {action.node1}
           ELSE \* 'import': export the current store, import the recorded one
                IF ExportRaises
                THEN /\ ret' = ExportTypeError
                     /\ UNCHANGED <<processes, resources, allocations, requests,
                                    undo_stack, node_positions>>
                ELSE IF action.state = NoState
                THEN /\ ret' = LoadsTypeError("redo")
                     /\ UNCHANGED <<processes, resources, allocations, requests,
                                    undo_stack, node_positions>>
                ELSE \E order \in Orders(processes) :
                     /\ import_state(action.state[1])
                     /\ Again([action EXCEPT !.state = <<Document(order)>>])
                     /\ UNCHANGED node_positions
    /\ next_process_id' = next_process_id
    /\ next_resource_id' = next_resource_id
    /\ scan' = scan

\* "Load State" with a chosen file holding `state`; `order` is the order in
\* which export_state lists the processes
sim_import_state(state, order) ==
    /\ scan.pc = "idle"
    /\ IF ExportRaises
       THEN /\ ret' = ExportTypeError
            /\ UNCHANGED <<processes, resources, allocations, requests, ui>>
       ELSE /\ push_undo_action("import", Document(order), None, 0, NoState,
                                node_positions)
            /\ import_state(state)
            \* reposition_nodes, reached only if import_state returned
            /\ node_positions' = IF ret'.status = "raised"
                                 THEN node_positions
                                 ELSE processes' \cup DOMAIN resources'
    /\ next_process_id' = next_process_id
    /\ next_resource_id' = next_resource_id
    /\ scan' = scan

\* "New Graph" (Ctrl+N), confirmed
reset_graph(order) ==
    /\ scan.pc = "idle"
    /\ IF ExportRaises
       THEN /\ ret' = ExportTypeError
            /\ UNCHANGED <<processes, resources, allocations, requests,
                           next_process_id, next_resource_id, ui>>
       ELSE /\ push_undo_action("import", Document(order), None, 0, NoState,
                                node_positions)
            /\ processes' = {}
            /\ resources' = EmptyDict
            /\ allocations' = EmptyDict
            /\ requests' = EmptyDict
            /\ next_process_id' = 1
            /\ next_resource_id' = 1
            /\ node_positions' = {}
            /\ ret' = Returned("reset_graph", None)
    /\ scan' = scan

EdgeModes == {"request", "allocation"}
\* the files chosen in the "Load State" dialog
LoadedFiles == {SnapshotHolding, SnapshotNoRequests}

SimulatorNext ==
    \/ sim_add_process
    \/ \E n \in Instances : sim_add_resource(n)
    \/ \E mode \in EdgeModes, n1 \in Clickable, n2 \in Clickable, c \in Counts :
          n1 # n2 /\ create_edge(mode, n1, n2, c)
    \/ undo
    \/ redo
    \/ \E state \in LoadedFiles, order \in Orders(processes) :
          sim_import_state(state, order)
    \/ \E order \in Orders(processes) : reset_graph(order)

SpecSimulator == Init /\ [][SimulatorNext]_vars

(* ------------------------------ claims -------------------------------- *)
\* units of resource r held by the processes
Allocated(r) == AllocatedOf(allocations, r)

\* C1: for every resource, available plus the sum of its allocations equals
\* total, in every state the store operations reach.
C1_CapacityInvariant ==
    \A r \in DOMAIN resources :
        resources[r].available + Allocated(r) = resources[r].total

\* C2: every resource has 0 <= available <= total in every reachable state.
C2_AvailableInRange ==
    \A r \in DOMAIN resources :
        0 <= resources[r].available /\ resources[r].available <= resources[r].total

\* C3: add_allocation of more than is available, between an existing process
\* and resource, raises "Not enough instances available" and leaves processes,
\* resources, allocations and requests as they were.
C3_RejectedAllocation ==
    [][ret'.op = "add_allocation" =>
          \A p \in processes, r \in DOMAIN resources :
              \A c \in {n \in Counts : n > resources[r].available} :
                  add_allocation(p, r, c)
                  => (/\ ret' = Raised("add_allocation", "ValueError",
                                       "Not enough instances available")
                      /\ UNCHANGED store)]_vars

\* a rejected allocation of 2 against a resource holding 1 free instance
C3_Witness ==
    /\ ret = Raised("add_allocation", "ValueError", "Not enough instances available")
    /\ \E r \in DOMAIN resources : resources[r].available = 1
    /\ processes # {}

\* the last call was detect_deadlock: ret holds its result for this store
LastDetect == ret.op = "detect_deadlock" /\ ret.status = "returned"
DeadlockedSet == Range(ret.value.deadlocked)
InvolvedOf(result, p) ==
    IF p \in DOMAIN result.involved_resources
    THEN result.involved_resources[p] ELSE {}

\* an ordering of all processes in which each one's requests fit in available
\* plus the allocations of the processes before it
SafeOrderExists ==
    \E o \in Orders(processes) :
        \A i \in 1..Len(o) : \A r \in DOMAIN resources :
            Get(requests, <<o[i], r>>) <=
                resources[r].available
                + SumOver(allocations,
                          {k \in DOMAIN allocations :
                              k[2] = r /\ \E j \in 1..(i - 1) : k[1] = o[j]})

\* work once the processes of F have released what they hold
WorkAfter(F) ==
    [r \in DOMAIN resources |->
        resources[r].available
        + SumOver(allocations, {k \in DOMAIN allocations : k[2] = r /\ k[1] \in F})]

\* the work/finish fixed point, without reference to a scan order
RECURSIVE FinishedFrom(_)
FinishedFrom(F) ==
    LET more == {p \in processes \ F :
                    \A r \in DOMAIN resources :
                        Get(requests, <<p, r>>) <= WorkAfter(F)[r]}
    IN IF more = {} THEN F ELSE FinishedFrom(F \cup more)

\* C4: detect_deadlock reports safe exactly when a safe ordering of all
\* processes exists, and otherwise lists exactly the processes unfinished at
\* the work/finish fixed point.
C4_SafeIffOrdering ==
    LastDetect =>
        /\ (~ret.value.has_deadlock) <=> SafeOrderExists
        /\ (~ret.value.has_deadlock) <=> (ret.value.deadlocked = <<>>)
        /\ DeadlockedSet = processes \ FinishedFrom({})
        /\ Len(ret.value.deadlocked) = Cardinality(DeadlockedSet)

\* a safe verdict for a store where some process cannot finish at first
C4_Witness ==
    /\ LastDetect
    /\ ~ret.value.has_deadlock
    /\ \E p \in processes : ~CanFinish(p, InitialWork)

\* C5: every iteration order of the processes gives the same verdict, the same
\* set of deadlocked processes and the same implicated resources per process.
C5_OrderIndependence ==
    LastDetect =>
        \A o \in Orders(processes), ro \in ResourceOrders :
            LET other == detect_deadlock(o, ro)
            IN /\ other.has_deadlock = ret.value.has_deadlock
               /\ Range(other.deadlocked) = DeadlockedSet
               /\ \A p \in processes :
                    InvolvedOf(other, p) = InvolvedOf(ret.value, p)

\* three processes, some deadlocked and some finished after another's release
C5_Witness ==
    /\ LastDetect
    /\ Cardinality(processes) = 3
    /\ ret.value.has_deadlock
    /\ \E p \in processes \ DeadlockedSet : ~CanFinish(p, InitialWork)

\* the work vectors that differ from the store's only by more available
MoreAvailable ==
    {w \in [DOMAIN resources -> 0..(MaxInstances + MaxHeld)] :
        /\ \A r \in DOMAIN resources :
              /\ w[r] >= resources[r].available
              /\ w[r] <= resources[r].available + MaxHeld
        /\ w # InitialWork}

\* C6: if detection reports safe, it also reports safe (under every order) for
\* the store that differs only by a larger available count on some resources.
C6_SafetyMonotonicity ==
    (LastDetect /\ ~ret.value.has_deadlock) =>
        \A w \in MoreAvailable : \A o \in Orders(processes), ro \in ResourceOrders :
            ~RunDetect(o, ro, w).has_deadlock

\* a safe verdict for a store with requests and held allocations
C6_Witness ==
    /\ LastDetect
    /\ ~ret.value.has_deadlock
    /\ DOMAIN requests # {}
    /\ DOMAIN allocations # {}
    /\ MoreAvailable # {}

\* C7 as stated: the loop exits after at most |processes| full passes.
C7_AtMostProcessesPasses ==
    scan.pc = "report" => scan.passes <= Cardinality(processes)

\* C7 as amended: a further pass starts only after at most |processes| passes,
\* so the loop exits after at least one and at most |processes| + 1 passes.
C7_AtMostProcessesPlusOnePasses ==
    /\ scan.pc = "scan" => scan.passes <= Cardinality(processes)
    /\ scan.pc = "report" =>
          /\ scan.passes >= 1
          /\ scan.passes <= Cardinality(processes) + 1

\* every process finishes in a pass of its own, and a last pass finds nothing
C7_Witness ==
    /\ scan.pc = "report"
    /\ Cardinality(processes) = 3
    /\ scan.passes = Cardinality(processes) + 1
    /\ \A p \in processes : scan.st.finish[p]

\* scenario 2: P1 holds R1 and wants R2, P2 holds R2 and wants R1
TwoCycle ==
    /\ processes = {"P1", "P2"}
    /\ resources = [r \in {"R1", "R2"} |-> [total |-> 1, available |-> 0]]
    /\ allocations = (<<"P1", "R1">> :> 1) @@ (<<"P2", "R2">> :> 1)
    /\ requests = (<<"P1", "R2">> :> 1) @@ (<<"P2", "R1">> :> 1)

\* C8: the implicated resources of a deadlocked process are exactly the
\* resources it requests more of than the final work vector holds; in the
\* 2-cycle both processes are deadlocked, P1 on {R2} and P2 on {R1}.
C8_ImplicatedByFinalWork ==
    LastDetect =>
        /\ \A p \in DeadlockedSet :
              InvolvedOf(ret.value, p) =
                  {r \in DOMAIN resources :
                      Get(requests, <<p, r>>) > WorkAfter(processes \ DeadlockedSet)[r]}
        /\ DOMAIN ret.value.involved_resources \subseteq DeadlockedSet
        /\ TwoCycle =>
              /\ DeadlockedSet = {"P1", "P2"}
              /\ InvolvedOf(ret.value, "P1") = {"R2"}
              /\ InvolvedOf(ret.value, "P2") = {"R1"}

\* the 2-cycle, after detection
C8_Witness == LastDetect /\ TwoCycle

\* C9: for every store the store operations reach, export_state succeeds and
\* import_state of what it returned leaves processes, resources, allocations
\* and requests as they were.
C9_RoundTrip ==
    ret.op = "export_state" =>
        /\ ret.status = "returned"
        /\ Imported(ret.value) = store

\* the data-model invariants, read off a document with all four fields
SnapshotEdgesValid(state, edges) ==
    \A k \in DOMAIN edges :
        /\ edges[k] >= 0
        /\ \E p \in Range(state.processes), r \in DOMAIN state.resources :
              k = JsonKey(p, r)
SnapshotAllocated(state, r) ==
    SumOver(state.allocations,
            {k \in DOMAIN state.allocations :
                \E p \in Range(state.processes) : k = JsonKey(p, r)})
ValidSnapshot(state) ==
    /\ \A f \in Range(Fields) : f \in DOMAIN state
    /\ SnapshotEdgesValid(state, state.allocations)
    /\ SnapshotEdgesValid(state, state.requests)
    /\ \A r \in DOMAIN state.resources :
          /\ state.resources[r].total >= 1
          /\ state.resources[r].available >= 0
          /\ state.resources[r].available =
                state.resources[r].total - SnapshotAllocated(state, r)

\* C10: import_state of a document with a negative count, an edge to an
\* unknown process or resource, or an available that differs from total minus
\* the allocations fails, and the document does not become the store.
C10_ImportRejectsInvalid ==
    [][\A state \in {SnapshotNegativeCount, SnapshotUnknownProcess,
                     SnapshotOverAllocated} :
          (~ValidSnapshot(state) /\ import_state(state))
          => (ret'.status = "raised" /\ UNCHANGED store)]_vars

\* C11: whenever an import_state call fails, none of processes, resources,
\* allocations or requests has changed from its value before the call.
C11_ImportAtomic ==
    [][(ret'.op = "import_state" /\ ret'.status = "raised") => UNCHANGED store]_vars

\* the lowest positive n whose name is not in `used`
LowestUnused(prefix, used) == prefix \o ToString(AutoIndex(prefix, 1, used))

\* C12: add_process() / add_resource() called without an id returns P<n> / R<n>
\* for the lowest positive n whose name is not in the store at the call.
C12_AutoNameLowestUnused ==
    [][/\ sim_add_process => ret'.value = LowestUnused("P", processes)
       /\ \A n \in Instances :
            sim_add_resource(n) => ret'.value = LowestUnused("R", DOMAIN resources)]_vars

\* C13: every key of requests and of allocations names a process in processes
\* and a resource in resources (as a pair, or as the JSON key of a pair after
\* an import), in every state, entity removal by undo and import included.
C13_ReferentialIntegrity ==
    \A k \in DOMAIN requests \cup DOMAIN allocations :
        \E p \in processes, r \in DOMAIN resources :
            k = <<p, r>> \/ k = JsonKey(p, r)

\* C14: no identifier is both a process and a resource, whatever ids the
\* callers of add_process and add_resource supply.
C14_IdentifierDisjointness == processes \cap DOMAIN resources = {}

\* C15: neither requests nor allocations holds a key whose count is <= 0, in
\* every state reached by add_request, add_allocation and remove_allocation.
C15_NoZeroEdges ==
    /\ \A k \in DOMAIN requests : requests[k] > 0
    /\ \A k \in DOMAIN allocations : allocations[k] > 0

\* detect_deadlock reports safe, whatever the iteration order
ReportsSafe ==
    \A o \in Orders(processes), ro \in ResourceOrders :
        ~detect_deadlock(o, ro).has_deadlock
\* the 2-cycle once P2 has released the R2 it holds
TwoCycleReleased ==
    /\ processes = {"P1", "P2"}
    /\ resources = ("R1" :> [total |-> 1, available |-> 0])
                   @@ ("R2" :> [total |-> 1, available |-> 1])
    /\ allocations = (<<"P1", "R1">> :> 1)
    /\ requests = (<<"P1", "R2">> :> 1) @@ (<<"P2", "R1">> :> 1)

\* C16 as stated: from the 2-cycle, remove_allocation(P2, R1, 1) leaves a
\* store for which detect_deadlock reports safe.
C16_ReleaseR1ThenSafe ==
    [][(TwoCycle /\ remove_allocation("P2", "R1", 1)) => ReportsSafe']_vars

\* C16 as amended: from the 2-cycle, remove_allocation(P2, R2, 1) (the resource
\* P2 holds) leaves a store for which detect_deadlock reports safe, and
\* remove_allocation(P2, R1, 1) leaves the 2-cycle as it is.
C16_ReleaseR2ThenSafe ==
    /\ [][(TwoCycle /\ remove_allocation("P2", "R2", 1))
            => (TwoCycleReleased' /\ ReportsSafe')]_vars
    /\ [][(TwoCycle /\ remove_allocation("P2", "R1", 1)) => TwoCycle']_vars
    /\ []((LastDetect /\ TwoCycleReleased) => ~ret.value.has_deadlock)
    /\ []((LastDetect /\ TwoCycle) => ret.value.has_deadlock)

\* detection has run on the 2-cycle after the release of R2 (a store that only
\* a release reaches: at the start every instance is held)
C16_Witness ==
    /\ LastDetect
    /\ TwoCycleReleased
    /\ ~ret.value.has_deadlock

InvalidEdge(op) == Raised(op, "ValueError", "Invalid process or resource")

\* C17: add_request and add_allocation with a process that is not in
\* processes or a resource that is not in resources raise "Invalid process or
\* resource" and leave processes, resources, allocations and requests as they
\* were.
C17_UnknownEntityRejected ==
    [][ret'.op \in {"add_request", "add_allocation"} =>
          \A p \in ProcIds, r \in ResIds :
              (p \notin processes \/ r \notin DOMAIN resources) =>
                  \A c \in Counts :
                      /\ add_request(p, r, c)
                         => (ret' = InvalidEdge("add_request") /\ UNCHANGED store)
                      /\ add_allocation(p, r, c)
                         => (ret' = InvalidEdge("add_allocation") /\ UNCHANGED store)]_vars

\* a rejected request of an existing process for a resource that does not exist
C17_Witness ==
    /\ ret = InvalidEdge("add_request")
    /\ processes # {}
    /\ \E r \in ResIds : r \notin DOMAIN resources

\* C18: add_process with an id already in processes and add_resource with an
\* id already in resources raise and leave the store as it was: the existing
\* resource keeps its total and its available count.
C18_DuplicateRejected ==
    [][ret'.op \in {"add_process", "add_resource"} =>
          /\ \A id \in processes :
                add_process(id)
                => (/\ ret' = Raised("add_process", "ValueError", "Process already exists")
                    /\ UNCHANGED store)
          /\ \A id \in DOMAIN resources, n \in Instances :
                add_resource(id, n)
                => (/\ ret' = Raised("add_resource", "ValueError", "Resource already exists")
                    /\ UNCHANGED store)]_vars

\* a rejected add_resource for a resource some of whose instances are held
C18_Witness ==
    /\ ret = Raised("add_resource", "ValueError", "Resource already exists")
    /\ \E r \in DOMAIN resources : resources[r].available < resources[r].total

\* C19: remove_allocation for a pair with no allocation edge raises nothing and
\* leaves processes, resources, allocations and requests as they were.
C19_ReleaseWithoutEdgeNoOp ==
    [][ret'.op = "remove_allocation" =>
          \A p \in ProcIds, r \in ResIds :
              <<p, r>> \notin DOMAIN allocations =>
                  \A c \in Counts :
                      remove_allocation(p, r, c)
                      => (/\ ret' = Returned("remove_allocation", "None")
                          /\ UNCHANGED store)]_vars

\* a release has returned and every instance is still held: it released nothing
C19_Witness ==
    /\ ret = Returned("remove_allocation", "None")
    /\ \A r \in DOMAIN resources : resources[r].available = 0
    /\ \E p \in ProcIds, r \in ResIds : <<p, r>> \notin DOMAIN allocations

\* C20: for a non-empty deadlocked list the guide names the first process d of
\* the list as release target and suggests a release for exactly the resources
\* that are in d's implicated set and that d holds, each with d's whole
\* allocation of it; for an empty list it is the system-is-safe message alone.
C20_GuideReleaseTarget ==
    [][ret'.op = "get_deadlock_resolution_guide" =>
          LET result == ret.value
              guide == ret'.value
              d == result.deadlocked[1]
          IN IF result.deadlocked = <<>>
             THEN guide = SafeGuide
             ELSE /\ guide # SafeGuide
                  /\ guide.target = d
                  /\ \A r \in DOMAIN resources :
                        IF r \in InvolvedOf(result, d) /\ Get(allocations, <<d, r>>) > 0
                        THEN <<r, allocations[<<d, r>>]>> \in guide.releases
                        ELSE \A n \in 0..MaxHeld : <<r, n>> \notin guide.releases
                  /\ \A line \in guide.releases : line[1] \in DOMAIN resources]_vars

\* a guide for several deadlocked processes that suggests a release
C20_Witness ==
    /\ ret.op = "get_deadlock_resolution_guide"
    /\ ret.value # SafeGuide
    /\ Len(ret.value.deadlocked) > 1
    /\ ret.value.releases # {}
    /\ \E r \in DOMAIN resources :
          /\ <<ret.value.target, r>> \in DOMAIN allocations
          /\ \A line \in ret.value.releases : line[1] # r

\* C21: detect_deadlock followed by get_deadlock_resolution_guide on its
\* result is a pure read: every step of the two leaves processes, resources,
\* allocations and requests as they were, and so adds no zero-valued key to
\* requests or allocations.
C21_DetectAndGuidePureRead ==
    [][ret'.op \in {"detect_deadlock", "get_deadlock_resolution_guide"} =>
          UNCHANGED store]_vars

\* the handlers whose return leaves a record on top of the undo stack (redo
\* puts the record back through the same store calls)
RecordedOps ==
    {"add_process", "add_resource", "add_request", "add_allocation",
     "import_state", "reset_graph"}
\* the last handler has returned and its record is the top of the undo stack
JustRecorded ==
    /\ undo_stack # <<>>
    /\ ret.status = "returned"
    /\ ret.op \in RecordedOps
LastRecord == undo_stack[Len(undo_stack)]

\* d with c units less under key k
Lowered(d, k, c) ==
    IF Get(d, k) - c = 0 THEN Del(d, k) ELSE Put(d, k, Get(d, k) - c)
\* the store as it was before the handler that pushed record `a` ran, read
\* off the store it left
StoreBefore(a) ==
    IF a.type = "add_process"
    THEN <<processes \ {a.node1}, resources, allocations, requests>>
    ELSE IF a.type = "add_resource"
    THEN <<processes, Del(resources, a.node1), allocations, requests>>
    ELSE IF a.type = "request"
    THEN <<processes, resources, allocations,
           Lowered(requests, <<a.node1, a.node2>>, a.count)>>
    ELSE IF a.type = "allocation"
    THEN <<processes,
           [resources EXCEPT ![a.node2].available = @ + a.count],
           Lowered(allocations, <<a.node1, a.node2>>, a.count),
           requests>>
    ELSE <<Range(a.node1.processes), a.node1.resources,
           a.node1.allocations, a.node1.requests>>

\* every step that records an action leaves a store for which StoreBefore
\* of the new record is the store the step started from
StoreBeforeIsPrevious ==
    [][(Len(undo_stack') = Len(undo_stack) + 1 /\ ret'.status = "returned") =>
          StoreBefore(LastRecord)' = store]_vars

\* C22: undo invoked immediately after a recorded action (add process, add
\* resource, request edge, allocation edge, load state, reset graph) completes
\* without error and leaves processes, resources, allocations and requests
\* equal to their values just before that action.
C22_UndoRestoresStore ==
    [][(JustRecorded /\ Len(undo_stack') < Len(undo_stack)) =>
          /\ ret'.status = "returned"
          /\ store' = StoreBefore(LastRecord)]_vars

====
